---- MODULE Spec2Model ----
(***************************************************************************)
(* A model of LRUCache<TKey, TValue, std::list<std::pair<TKey, TValue>>>   *)
(* (src/LRUCache.h).  The recency list is a sequence of list nodes, each   *)
(* with an address, and the lookup map stores node addresses, as the       *)
(* iterators of a std::list do.  Every public member function is one       *)
(* action.                                                                 *)
(***************************************************************************)
EXTENDS Integers, Sequences, FiniteSets, TLC

\* ------------------------------------------------------------------ bounds
NumKeys     == 3      \* TKey ranges over 1..NumKeys
NumValues   == 2      \* TValue ranges over 1..NumValues
MaxCapacity == 2      \* the constructor argument ranges over 0..MaxCapacity
MaxCalls    == 4      \* get/put/clear calls made on one cache

\* std::size_t is modelled 16 bits wide: arithmetic on it wraps at SIZE_MAX+1
SIZE_MAX == 65535

Keys   == 1..NumKeys
Values == 1..NumValues
\* addresses a list node can be allocated at: one more than can be live
Nodes  == 1..(NumKeys + 1)
\* the past-the-end iterator of the list (its sentinel)
End    == 0

VARIABLES
    max_size_,      \* size_type max_size_
    container,      \* container_type container: [elems, size]
    lookupMap,      \* std::unordered_map<TKey, iterator> lookupMap
    cache_hits_,
    cache_misses_,
    update_count_,
    bounce_count_,
    aborted,        \* the process was terminated inside a call
    op,             \* the call made last: [name, key, value]
    ret,            \* what that call returned: [kind, it, entry, flag]
    clock,          \* number of get/put/clear calls made so far
    lastUse,        \* per key: clock of its last put or successful get (0: none)
    lastPut,        \* per key: value of its most recent put (0: none)
    calls,          \* calls made so far, by kind: [getCached, getNotCached,
                    \*   putCached, putFull]
    newPuts,        \* clocks of the completed puts of keys not cached
    lastClear,      \* clock of the last clear (0: none)
    plain           \* the cache without counters, given the same calls when
                    \*   plain.on: [on, max_size_, container, lookupMap,
                    \*   aborted, ret]

cacheVars == <<max_size_, container, lookupMap,
               cache_hits_, cache_misses_, update_count_, bounce_count_>>
vars == <<max_size_, container, lookupMap,
          cache_hits_, cache_misses_, update_count_, bounce_count_,
          aborted, op, ret, clock, lastUse, lastPut,
          calls, newPuts, lastClear, plain>>

\* ------------------------------------------------------- std::list, modelled
\* A list is [elems |-> sequence of nodes, front first; size |-> its size
\* field].  A node is [node |-> address, first |-> key, second |-> value].
EmptyList == [elems |-> <<>>, size |-> 0]

ListSize(c) == c.size

ListEmpty(c) == c.elems = <<>>

ListBegin(c) == IF c.elems = <<>> THEN End ELSE c.elems[1].node

LiveNodes(c) == {c.elems[i].node : i \in 1..Len(c.elems)}

\* *it for an iterator of the list; <<0, 0>> stands for "not dereferenceable"
Deref(c, it) ==
    IF it \in LiveNodes(c)
    THEN LET i == CHOOSE j \in 1..Len(c.elems) : c.elems[j].node = it
         IN  <<c.elems[i].first, c.elems[i].second>>
    ELSE <<0, 0>>

\* an erase that unlinks the back of the list instead of the node at pos
ListErase_Back(c, pos) ==
    [elems |-> SubSeq(c.elems, 1, Len(c.elems) - 1),
     size  |-> (c.size + SIZE_MAX) % (SIZE_MAX + 1)]

\* an erase that releases nothing: the entry stays linked
ListErase_Keep(c, pos) ==
    [elems |-> c.elems, size |-> (c.size + SIZE_MAX) % (SIZE_MAX + 1)]

\* list::erase(pos): unlink the node at pos and release it
ListErase(c, pos) ==
    [elems |-> SelectSeq(c.elems, LAMBDA e : e.node # pos),
     size  |-> (c.size + SIZE_MAX) % (SIZE_MAX + 1)]

\* an insertion at the wrong end of the list
ListPushFront_AtBack(c, n, pr) ==
    [elems |-> c.elems \o <<[node |-> n, first |-> pr[1], second |-> pr[2]]>>,
     size  |-> (c.size + 1) % (SIZE_MAX + 1)]

\* list::push_front(pr) with the new node allocated at address n
ListPushFront(c, n, pr) ==
    [elems |-> <<[node |-> n, first |-> pr[1], second |-> pr[2]]>> \o c.elems,
     size  |-> (c.size + 1) % (SIZE_MAX + 1)]

\* the addresses operator new can return for the next node of c, released
\* being the set of addresses just given back by erase or pop_back: one of
\* those, or another free address (which of the others does not matter,
\* nothing refers to them: the lowest stands for all)
FreeNodes(c, released) ==
    LET free  == Nodes \ LiveNodes(c)
        other == free \ released
    IN  (released \cap free) \cup
        {n \in other : \A m \in other : n <= m}

\* the key of the front of the list taken for the oldest one
ListBackKeys_Front(c) ==
    IF c.elems # <<>> THEN {c.elems[1].first} ELSE 0..NumKeys

\* list::back().first.  On an empty list back() is undefined behaviour: it
\* reads the sentinel as if it were a node, so the key read is arbitrary.
ListBackKeys(c) ==
    IF c.elems # <<>> THEN {c.elems[Len(c.elems)].first} ELSE 0..NumKeys

\* an eviction that drops the front of the list instead of its back
ListPopBack_Front(c) ==
    IF c.elems # <<>>
    THEN {[elems |-> Tail(c.elems),
           size  |-> (c.size + SIZE_MAX) % (SIZE_MAX + 1)]}
    ELSE {[elems |-> <<>>, size |-> (c.size + SIZE_MAX) % (SIZE_MAX + 1)],
          [elems |-> <<>>, size |-> c.size]}

\* list::pop_back().  On an empty list it is undefined behaviour; when the
\* process survives it, a list that keeps a size field has decremented it
\* below zero, and a list that counts its nodes on size() is unchanged.
ListPopBack(c) ==
    IF c.elems # <<>>
    THEN {[elems |-> SubSeq(c.elems, 1, Len(c.elems) - 1),
           size  |-> (c.size + SIZE_MAX) % (SIZE_MAX + 1)]}
    ELSE {[elems |-> <<>>, size |-> (c.size + SIZE_MAX) % (SIZE_MAX + 1)],
          [elems |-> <<>>, size |-> c.size]}

\* ---------------------------------------------- std::unordered_map, modelled
\* an erase that leaves the key in the map
MapErase_Skip(m, k) == m

MapErase(m, k) == [x \in (DOMAIN m) \ {k} |-> m[x]]

\* an assignment that does not replace the locator of a key already there
MapSet_Stale(m, k, it) ==
    [x \in (DOMAIN m) \cup {k} |-> IF x \in DOMAIN m THEN m[x] ELSE it]

MapSet(m, k, it) == [x \in (DOMAIN m) \cup {k} |-> IF x = k THEN it ELSE m[x]]

\* unordered_map::insert: no effect when the key is already there
MapInsert(m, k, it) == IF k \in DOMAIN m THEN m ELSE MapSet(m, k, it)

EmptyMap == [x \in {} |-> End]

\* ------------------------------------------------------------ return values
RetIterator(c, it) ==
    [kind |-> "iterator", it |-> it, entry |-> Deref(c, it), flag |-> FALSE]

RetBool(b) == [kind |-> "bool", it |-> End, entry |-> <<0, 0>>, flag |-> b]

RetVoid == [kind |-> "void", it |-> End, entry |-> <<0, 0>>, flag |-> FALSE]

Call(name, key, value) == [name |-> name, key |-> key, value |-> value]

\* ------------------------------------------------------------ the accessors
size == ListSize(container)

max_size == max_size_

empty == ListEmpty(container)

end == End

is_cached(key) == key \in DOMAIN lookupMap

peek(key) == IF key \notin DOMAIN lookupMap THEN end ELSE lookupMap[key]

\* the keys of the list's entries, in list order, and as a set
KeySeq(c) == [i \in 1..Len(c.elems) |-> c.elems[i].first]

KeySet(c) == {c.elems[i].first : i \in 1..Len(c.elems)}

\* the entries met from begin() to end(), as pairs, those of key k left out
EntriesBut(c, k) ==
    LET others == SelectSeq(c.elems, LAMBDA e : e.first # k)
    IN  [i \in 1..Len(others) |-> <<others[i].first, others[i].second>>]

\* front() and back() as pairs; meaningful on a non-empty list only
front == <<container.elems[1].first, container.elems[1].second>>

back ==
    <<container.elems[Len(container.elems)].first,
      container.elems[Len(container.elems)].second>>

\* --------------------------------------- the cache without counters
\* LRUCache(size) of the counter-free cache
PlainCache(sz, on) ==
    [on |-> on, max_size_ |-> sz, container |-> EmptyList,
     lookupMap |-> EmptyMap, aborted |-> FALSE, ret |-> RetVoid]

\* get: the states it can leave the cache s in
PlainGet(s, key) ==
    IF key \notin DOMAIN s.lookupMap
    THEN {[s EXCEPT !.ret = RetIterator(s.container, End)]}
    ELSE LET containerPos == s.lookupMap[key]
             existing     == Deref(s.container, containerPos)
             erased       == ListErase(s.container, containerPos)
         IN  {LET pushed == ListPushFront(erased, n, existing)
              IN  [s EXCEPT !.container = pushed,
                            !.lookupMap = MapSet(s.lookupMap, key,
                                                 ListBegin(pushed)),
                            !.ret = RetIterator(pushed, ListBegin(pushed))]
              : n \in FreeNodes(erased, {containerPos})}

PlainPeek(s, key) ==
    {[s EXCEPT !.ret = RetIterator(s.container,
                          IF key \notin DOMAIN s.lookupMap
                          THEN End ELSE s.lookupMap[key])]}

\* put, key absent and size() == max_size(): evict the back, then insert;
\* on an empty list the process may also be terminated
PlainPutFull(s, key, value) ==
    (IF ListEmpty(s.container)
     THEN {[s EXCEPT !.aborted = TRUE]}
     ELSE {})
    \cup
    UNION {UNION {
        {LET pushed == ListPushFront(popped, n, <<key, value>>)
         IN  [s EXCEPT !.container = pushed,
                       !.lookupMap = MapInsert(MapErase(s.lookupMap, oldest),
                                               key, ListBegin(pushed)),
                       !.ret = RetVoid]
         : n \in FreeNodes(popped,
                           LiveNodes(s.container) \ LiveNodes(popped))}
        : popped \in ListPopBack(s.container)}
        : oldest \in ListBackKeys(s.container)}

PlainPut(s, key, value) ==
    IF key \notin DOMAIN s.lookupMap
    THEN IF ListSize(s.container) = s.max_size_
         THEN PlainPutFull(s, key, value)
         ELSE {LET pushed == ListPushFront(s.container, n, <<key, value>>)
               IN  [s EXCEPT !.container = pushed,
                             !.lookupMap = MapInsert(s.lookupMap, key,
                                                     ListBegin(pushed)),
                             !.ret = RetVoid]
               : n \in FreeNodes(s.container, {})}
    ELSE LET erased == ListErase(s.container, s.lookupMap[key])
         IN  {LET pushed == ListPushFront(erased, n, <<key, value>>)
              IN  [s EXCEPT !.container = pushed,
                            !.lookupMap = MapSet(s.lookupMap, key,
                                                 ListBegin(pushed)),
                            !.ret = RetVoid]
              : n \in FreeNodes(erased, {s.lookupMap[key]})}

PlainClear(s) ==
    {[s EXCEPT !.container = EmptyList, !.lookupMap = EmptyMap,
               !.ret = RetVoid]}

PlainIsCached(s, key) ==
    {[s EXCEPT !.ret = RetBool(key \in DOMAIN s.lookupMap)]}

\* the counter-free cache is given the call only where it runs alongside
Alongside(successors) == IF plain.on THEN successors ELSE {plain}

\* ----------------------------------------------------------------- actions
\* LRUCache(size): any capacity, empty list and map, counters at zero
InitCounted ==
    /\ max_size_ \in 0..MaxCapacity
    /\ container = EmptyList
    /\ lookupMap = EmptyMap
    /\ cache_hits_ = 0
    /\ cache_misses_ = 0
    /\ update_count_ = 0
    /\ bounce_count_ = 0
    /\ aborted = FALSE
    /\ op = Call("construct", 0, 0)
    /\ ret = RetVoid
    /\ clock = 0
    /\ lastUse = [k \in Keys |-> 0]
    /\ lastPut = [k \in Keys |-> 0]
    /\ calls = [getCached |-> 0, getNotCached |-> 0,
                putCached |-> 0, putFull |-> 0]
    /\ newPuts = {}
    /\ lastClear = 0

\* one cache, with counters
Init ==
    /\ InitCounted
    /\ plain = PlainCache(max_size_, FALSE)

\* two caches of the same capacity, one with counters and one without
InitPair ==
    /\ InitCounted
    /\ plain = PlainCache(max_size_, TRUE)

\* a miss that is counted as a hit
GetMiss_CountsHit(key) ==
    /\ key \notin DOMAIN lookupMap
    /\ cache_hits_' = cache_hits_ + 1
    /\ ret' = RetIterator(container, end)
    /\ UNCHANGED <<container, lookupMap, cache_misses_, lastUse>>

\* get, key absent: count a miss and return end()
GetMiss(key) ==
    /\ key \notin DOMAIN lookupMap
    /\ cache_misses_' = cache_misses_ + 1
    /\ ret' = RetIterator(container, end)
    /\ UNCHANGED <<container, lookupMap, cache_hits_, lastUse>>

\* a hit that returns the entry where it is, without moving it
GetHit_NoPromote(key) ==
    /\ key \in DOMAIN lookupMap
    /\ cache_hits_' = cache_hits_ + 1
    /\ ret' = RetIterator(container, lookupMap[key])
    /\ lastUse' = [lastUse EXCEPT ![key] = clock + 1]
    /\ UNCHANGED <<container, lookupMap, cache_misses_>>

\* get, key present: count a hit, move the entry to the front, fix the
\* locator and return begin()
GetHit(key) ==
    /\ key \in DOMAIN lookupMap
    /\ LET containerPos == lookupMap[key]
           existing     == Deref(container, containerPos)
           erased       == ListErase(container, containerPos)
       IN  \E n \in FreeNodes(erased, {containerPos}) :
             /\ cache_hits_' = cache_hits_ + 1
             /\ container' = ListPushFront(erased, n, existing)
             /\ lookupMap' = MapSet(lookupMap, key, ListBegin(container'))
             /\ ret' = RetIterator(container', ListBegin(container'))
             /\ lastUse' = [lastUse EXCEPT ![key] = clock + 1]
    /\ UNCHANGED cache_misses_

Get(key) ==
    /\ ~aborted
    /\ ~plain.aborted
    /\ plain' \in Alongside(PlainGet(plain, key))
    /\ clock < MaxCalls
    /\ op' = Call("get", key, 0)
    /\ clock' = clock + 1
    /\ \/ GetMiss(key)
       \/ GetHit(key)
    /\ calls' = IF is_cached(key)
                THEN [calls EXCEPT !.getCached = @ + 1]
                ELSE [calls EXCEPT !.getNotCached = @ + 1]
    /\ UNCHANGED <<max_size_, update_count_, bounce_count_, aborted, lastPut,
                   newPuts, lastClear>>

\* put, key absent: evict the back of the list when size() == max_size(),
\* then push the new pair to the front and index it
PutNew(key, value) ==
    /\ key \notin DOMAIN lookupMap
    /\ IF ListSize(container) = max_size
       THEN \E oldest \in ListBackKeys(container) :
            \E popped \in ListPopBack(container) :
            \E n \in FreeNodes(popped, LiveNodes(container) \ LiveNodes(popped)) :
              /\ bounce_count_' = bounce_count_ + 1
              /\ container' = ListPushFront(popped, n, <<key, value>>)
              /\ lookupMap' = MapInsert(MapErase(lookupMap, oldest), key,
                                        ListBegin(container'))
       ELSE \E n \in FreeNodes(container, {}) :
              /\ bounce_count_' = bounce_count_
              /\ container' = ListPushFront(container, n, <<key, value>>)
              /\ lookupMap' = MapInsert(lookupMap, key, ListBegin(container'))
    /\ UNCHANGED <<update_count_, aborted>>

\* put, key absent, size() == max_size() and the list empty: back() and
\* pop_back() on the empty list are undefined behaviour, and the process may
\* be terminated there (a hardened library, or the release of the sentinel)
PutAbort(key, value) ==
    /\ key \notin DOMAIN lookupMap
    /\ ListSize(container) = max_size
    /\ ListEmpty(container)
    /\ bounce_count_' = bounce_count_ + 1
    /\ aborted' = TRUE
    /\ UNCHANGED <<container, lookupMap, update_count_>>

\* an update that is also counted as an eviction
PutUpdate_CountsBounce(key, value) ==
    /\ key \in DOMAIN lookupMap
    /\ LET erased == ListErase(container, lookupMap[key])
       IN  \E n \in FreeNodes(erased, {lookupMap[key]}) :
             /\ update_count_' = update_count_ + 1
             /\ bounce_count_' = bounce_count_ + 1
             /\ container' = ListPushFront(erased, n, <<key, value>>)
             /\ lookupMap' = MapSet(lookupMap, key, ListBegin(container'))
    /\ UNCHANGED aborted

\* an update that moves the entry to the front with the value it had
PutUpdate_KeepsValue(key, value) ==
    /\ key \in DOMAIN lookupMap
    /\ LET existing == Deref(container, lookupMap[key])
           erased   == ListErase(container, lookupMap[key])
       IN  \E n \in FreeNodes(erased, {lookupMap[key]}) :
             /\ update_count_' = update_count_ + 1
             /\ container' = ListPushFront(erased, n, existing)
             /\ lookupMap' = MapSet(lookupMap, key, ListBegin(container'))
    /\ UNCHANGED <<bounce_count_, aborted>>

\* put, key present: replace the entry and move it to the front
PutUpdate(key, value) ==
    /\ key \in DOMAIN lookupMap
    /\ LET erased == ListErase(container, lookupMap[key])
       IN  \E n \in FreeNodes(erased, {lookupMap[key]}) :
             /\ update_count_' = update_count_ + 1
             /\ container' = ListPushFront(erased, n, <<key, value>>)
             /\ lookupMap' = MapSet(lookupMap, key, ListBegin(container'))
    /\ UNCHANGED <<bounce_count_, aborted>>

Put(key, value) ==
    /\ ~aborted
    /\ ~plain.aborted
    /\ plain' \in Alongside(PlainPut(plain, key, value))
    /\ clock < MaxCalls
    /\ op' = Call("put", key, value)
    /\ ret' = RetVoid
    /\ clock' = clock + 1
    /\ \/ PutNew(key, value)
       \/ PutAbort(key, value)
       \/ PutUpdate(key, value)
    /\ lastUse' = IF aborted' THEN lastUse ELSE [lastUse EXCEPT ![key] = clock + 1]
    /\ lastPut' = IF aborted' THEN lastPut ELSE [lastPut EXCEPT ![key] = value]
    /\ calls' = IF is_cached(key)
                THEN [calls EXCEPT !.putCached = @ + 1]
                ELSE IF size = max_size
                     THEN [calls EXCEPT !.putFull = @ + 1]
                     ELSE calls
    /\ newPuts' = IF ~is_cached(key) /\ ~aborted'
                  THEN newPuts \cup {clock + 1}
                  ELSE newPuts
    /\ UNCHANGED <<max_size_, cache_hits_, cache_misses_, lastClear>>

\* a peek that moves the entry it finds to the front, as get does
Peek_Promotes(key) ==
    /\ ~aborted
    /\ ~plain.aborted
    /\ plain' \in Alongside(PlainPeek(plain, key))
    /\ op' = Call("peek", key, 0)
    /\ IF key \notin DOMAIN lookupMap
       THEN /\ ret' = RetIterator(container, end)
            /\ UNCHANGED <<container, lookupMap>>
       ELSE LET erased == ListErase(container, lookupMap[key])
            IN  /\ container' = ListPushFront(erased, lookupMap[key],
                                              Deref(container, lookupMap[key]))
                /\ lookupMap' = lookupMap
                /\ ret' = RetIterator(container', lookupMap[key])
    /\ UNCHANGED <<max_size_, cache_hits_, cache_misses_, update_count_,
                   bounce_count_, aborted, clock, lastUse, lastPut,
                   calls, newPuts, lastClear>>

Peek(key) ==
    /\ ~aborted
    /\ ~plain.aborted
    /\ plain' \in Alongside(PlainPeek(plain, key))
    /\ op' = Call("peek", key, 0)
    /\ ret' = RetIterator(container, peek(key))
    /\ UNCHANGED <<cacheVars, aborted, clock, lastUse, lastPut,
                   calls, newPuts, lastClear>>

IsCached(key) ==
    /\ ~aborted
    /\ ~plain.aborted
    /\ plain' \in Alongside(PlainIsCached(plain, key))
    /\ op' = Call("is_cached", key, 0)
    /\ ret' = RetBool(is_cached(key))
    /\ UNCHANGED <<cacheVars, aborted, clock, lastUse, lastPut,
                   calls, newPuts, lastClear>>

\* a clear that empties the list and leaves the index as it was
Clear_KeepsIndex ==
    /\ ~aborted
    /\ ~plain.aborted
    /\ plain' \in Alongside(PlainClear(plain))
    /\ clock < MaxCalls
    /\ op' = Call("clear", 0, 0)
    /\ ret' = RetVoid
    /\ clock' = clock + 1
    /\ container' = EmptyList
    /\ lastClear' = clock + 1
    /\ UNCHANGED <<max_size_, lookupMap, cache_hits_, cache_misses_,
                   update_count_, bounce_count_, aborted, lastUse, lastPut,
                   calls, newPuts>>

Clear ==
    /\ ~aborted
    /\ ~plain.aborted
    /\ plain' \in Alongside(PlainClear(plain))
    /\ clock < MaxCalls
    /\ op' = Call("clear", 0, 0)
    /\ ret' = RetVoid
    /\ clock' = clock + 1
    /\ container' = EmptyList
    /\ lookupMap' = EmptyMap
    /\ lastClear' = clock + 1
    /\ UNCHANGED <<max_size_, cache_hits_, cache_misses_, update_count_,
                   bounce_count_, aborted, lastUse, lastPut, calls, newPuts>>

Next ==
    \/ \E key \in Keys : Get(key)
    \/ \E key \in Keys : \E value \in Values : Put(key, value)
    \/ \E key \in Keys : Peek(key)
    \/ \E key \in Keys : IsCached(key)
    \/ Clear

Spec == Init /\ [][Next]_vars

\* the same calls made on both caches
SpecPair == InitPair /\ [][Next]_vars

\* ------------------------------------------------------------------ claims
\* C1: after every call that completes, size() <= max_size(), for every
\* capacity >= 0 given at construction.
C1_SizeWithinCapacity == ~aborted => size <= max_size

\* C2: after every public operation the key set of the index (lookupMap)
\* equals the key set of the entries of the recency list (container).
C2_IndexKeysEqualListKeys == DOMAIN lookupMap = KeySet(container)

C2_Witness ==
    /\ op.name = "put"
    /\ bounce_count_ >= 1
    /\ update_count_ >= 1
    /\ cache_hits_ >= 1
    /\ Len(container.elems) = 2

\* C3: in every reachable state each key appears at most once in the
\* recency list.
C3_KeysUniqueInList ==
    \A i, j \in 1..Len(container.elems) :
        container.elems[i].first = container.elems[j].first => i = j

C3_Witness ==
    /\ Len(container.elems) = 2
    /\ update_count_ >= 1
    /\ cache_hits_ >= 1

\* C4: get(k) on a cached key returns the entry (k, v), v the value of the
\* most recent put(k, .), and leaves k at the front of the list; so does
\* every repetition of it.
C4_GetHitReturnsLatestAndPromotes ==
    [][\A k \in Keys :
         (op'.name = "get" /\ op'.key = k /\ k \in DOMAIN lookupMap) =>
            /\ ret'.it # end
            /\ ret'.it = ListBegin(container')
            /\ ret'.entry = <<k, lastPut[k]>>
            /\ front' = <<k, lastPut[k]>>]_vars

C4_Witness ==
    /\ op.name = "get"
    /\ ret.it # end
    /\ cache_hits_ >= 2
    /\ Len(container.elems) = 2
    /\ ret.entry = <<op.key, lastPut[op.key]>>

\* C5: get(k) on a key that is not cached returns end(), adds exactly 1 to
\* cache_misses and leaves the list, the index and the hit, update and
\* bounce counters as they were.
C5_GetMissOnlyCountsMiss ==
    [][\A k \in Keys :
         (op'.name = "get" /\ op'.key = k /\ k \notin DOMAIN lookupMap) =>
            /\ ret'.it = end
            /\ cache_misses_' = cache_misses_ + 1
            /\ UNCHANGED <<container, lookupMap, cache_hits_,
                           update_count_, bounce_count_>>]_vars

C5_Witness ==
    /\ op.name = "get"
    /\ ret.it = end
    /\ cache_misses_ >= 1
    /\ Len(container.elems) = 2
    /\ lastPut[op.key] # 0

C7_PutLeavesKeyAtFront ==
    (op.name = "put" /\ ~aborted) =>
        /\ is_cached(op.key)
        /\ ~empty
        /\ front = <<op.key, op.value>>

C7_Witness ==
    /\ op.name = "put"
    /\ ~aborted
    /\ bounce_count_ >= 1
    /\ update_count_ >= 1
    /\ Len(container.elems) = 2
    /\ max_size_ = 2

\* C8: put(k, v) on a cached key never evicts: size() and the set of cached
\* keys are unchanged, bounce_count is unchanged, update_count grows by
\* exactly 1 and the value stored for k becomes v.
C8_UpdateNeverEvicts ==
    [][\A k \in Keys :
         (op'.name = "put" /\ op'.key = k /\ k \in DOMAIN lookupMap) =>
            /\ size' = size
            /\ Len(container'.elems) = Len(container.elems)
            /\ DOMAIN lookupMap' = DOMAIN lookupMap
            /\ KeySet(container') = KeySet(container)
            /\ bounce_count_' = bounce_count_
            /\ update_count_' = update_count_ + 1
            /\ Deref(container', lookupMap'[k]) = <<k, op'.value>>]_vars

C8_Witness ==
    /\ op.name = "put"
    /\ update_count_ >= 1
    /\ size = max_size
    /\ Len(container.elems) = 2
    /\ lastUse[op.key] = clock
    /\ bounce_count_ = 0
    /\ clock = 3

\* C9: peek(k) and is_cached(k), for any key and in any reachable state,
\* leave the list (order and values), the index, the size and the four
\* counters unchanged.
C9_PeekAndIsCachedChangeNothing ==
    [][op'.name \in {"peek", "is_cached"} => UNCHANGED cacheVars]_vars

C9_Witness ==
    /\ op.name = "peek"
    /\ ret.it # end
    /\ Len(container.elems) = 2
    /\ ret.it # ListBegin(container)

\* C10: in every reachable state and for every key k, is_cached(k) is true
\* exactly when peek(k) is not end(), and then peek(k) designates the entry
\* (k, v), v the value of the most recent put(k, .).
C10_IsCachedAgreesWithPeek ==
    ~aborted =>
        \A k \in Keys :
            /\ is_cached(k) <=> peek(k) # end
            /\ is_cached(k) => Deref(container, peek(k)) = <<k, lastPut[k]>>

C10_Witness ==
    /\ op.name = "is_cached"
    /\ ret.flag
    /\ update_count_ >= 1
    /\ \E k \in Keys : ~is_cached(k) /\ lastPut[k] # 0

\* C11: clear() in any reachable state leaves size() == 0, empty() true and
\* is_cached(k) false for every key, while max_size() and the four counters
\* keep the values they had before the call.
C11_ClearEmptiesAndKeepsCounters ==
    [][op'.name = "clear" =>
         /\ size' = 0
         /\ empty'
         /\ \A k \in Keys : ~is_cached(k)'
         /\ UNCHANGED <<max_size_, cache_hits_, cache_misses_,
                        update_count_, bounce_count_>>]_vars

C11_Witness ==
    /\ op.name = "clear"
    /\ size = 0
    /\ max_size_ = 1
    /\ bounce_count_ = 1
    /\ update_count_ = 1

\* C12: after any sequence of operations cache_hits is the number of get
\* calls on keys cached at the call, cache_misses the number of get calls on
\* keys not cached, update_count the number of put calls on cached keys and
\* bounce_count the number of put calls on keys not cached made while
\* size() == max_size().
C12_CountersCountCalls ==
    /\ cache_hits_ = calls.getCached
    /\ cache_misses_ = calls.getNotCached
    /\ update_count_ = calls.putCached
    /\ bounce_count_ = calls.putFull

C12_Witness ==
    /\ max_size_ = 1
    /\ bounce_count_ = 1
    /\ update_count_ = 1
    /\ cache_hits_ + cache_misses_ = 1
    /\ clock = 4

\* C13: with capacity 0 nothing is ever retained: after every put(k, v)
\* that completes, size() == 0 and is_cached(k) is false.
C13_CapacityZeroRetainsNothing ==
    (max_size_ = 0 /\ op.name = "put" /\ ~aborted) =>
        /\ size = 0
        /\ ~is_cached(op.key)

\* C14: every call completes without structural failure, for every
\* capacity >= 0; in particular whenever put takes its eviction branch (key
\* not cached and size() == max_size()) the list is not empty, so back()
\* and pop_back() are never applied to an empty list.
C14_CallsAreTotal ==
    /\ [][(op'.name = "put" /\ ~is_cached(op'.key) /\ size = max_size)
            => ~empty]_vars
    /\ []~aborted

\* C15: put(k, v) right after put(k, v): the second call leaves size() and
\* the recency order unchanged, adds exactly 1 to update_count and nothing
\* to the other counters, and k stays the front entry with value v.
C15_RepeatedPutOnlyCountsUpdate ==
    [][(op.name = "put" /\ op' = op) =>
         /\ size' = size
         /\ KeySeq(container') = KeySeq(container)
         /\ update_count_' = update_count_ + 1
         /\ UNCHANGED <<cache_hits_, cache_misses_, bounce_count_>>
         /\ front' = <<op.key, op.value>>]_vars

C15_Witness ==
    /\ op.name = "put"
    /\ update_count_ = 1
    /\ lastUse[op.key] = 3
    /\ clock = 3
    /\ Len(container.elems) = 2
    /\ newPuts = {1, 2}

\* C16: traversing the list from begin() to end() visits the cached keys in
\* strictly decreasing order of the time of their last use (last put or
\* last successful get); front() is the most recently used key and back()
\* the least recently used one.
C16_ListIsInRecencyOrder ==
    /\ KeySet(container) = DOMAIN lookupMap
    /\ \A i, j \in 1..Len(container.elems) :
          i < j => lastUse[container.elems[i].first]
                     > lastUse[container.elems[j].first]
    /\ ~empty => \A k \in DOMAIN lookupMap :
                    /\ lastUse[front[1]] >= lastUse[k]
                    /\ lastUse[back[1]] <= lastUse[k]

C16_Witness ==
    /\ Len(container.elems) = 2
    /\ cache_hits_ >= 1
    /\ bounce_count_ >= 1
    /\ max_size_ = 2
    /\ lastUse[front[1]] = 4
    /\ lastUse[back[1]] = 3

\* C18: a successful get(k) changes nothing but the position of k: the set
\* of cached keys, every stored value, size() and the relative order of the
\* other entries are unchanged; and put(k, v) leaves the values and the
\* relative order of the entries other than k and the evicted one unchanged.
C18_OtherEntriesKeepOrderAndValues ==
    /\ [][(op'.name = "get" /\ is_cached(op'.key)) =>
            /\ DOMAIN lookupMap' = DOMAIN lookupMap
            /\ KeySet(container') = KeySet(container)
            /\ size' = size
            /\ Len(container'.elems) = Len(container.elems)
            /\ Deref(container', lookupMap'[op'.key])
                 = Deref(container, lookupMap[op'.key])
            /\ EntriesBut(container', op'.key)
                 = EntriesBut(container, op'.key)]_vars
    /\ [][(op'.name = "put" /\ ~aborted') =>
            EntriesBut(container', op'.key)
              = SelectSeq(EntriesBut(container, op'.key),
                          LAMBDA e : e[1] \in KeySet(container'))]_vars

C18_Witness ==
    /\ op.name = "get"
    /\ ret.it # end
    /\ Len(container.elems) = 2
    /\ max_size_ = 2
    /\ lastUse[back[1]] = 2

\* C19: in every reachable state the locator stored for each key of the
\* index designates a live entry of the list, and that entry has this key.
C19_LocatorsDesignateOwnEntries ==
    \A k \in DOMAIN lookupMap :
        /\ lookupMap[k] \in LiveNodes(container)
        /\ \A i \in 1..Len(container.elems) :
              container.elems[i].node = lookupMap[k]
                 => container.elems[i].first = k

C19_Witness ==
    /\ Len(container.elems) = 2
    /\ cache_hits_ >= 1
    /\ update_count_ >= 1
    /\ max_size_ = 2

\* C20 (as stated): with capacity N >= 1 and no clear() in between, a key
\* that was put or returned by a successful get stays cached as long as
\* fewer than N put calls on keys not cached have completed since.
C20_RetainedUntilNNewPuts ==
    \A k \in Keys :
        ( /\ max_size_ >= 1
          /\ lastUse[k] > 0
          /\ lastClear < lastUse[k]
          /\ Cardinality({t \in newPuts : t > lastUse[k]}) < max_size_ )
        => is_cached(k)

\* C20 (amended): the same, as long as fewer than N distinct other keys have
\* been put or returned by a successful get since.
C20_RetainedUntilNOtherKeysUsed ==
    \A k \in Keys :
        ( /\ max_size_ >= 1
          /\ lastUse[k] > 0
          /\ lastClear < lastUse[k]
          /\ Cardinality({j \in Keys \ {k} : lastUse[j] > lastUse[k]})
               < max_size_ )
        => is_cached(k)

C20_Witness ==
    /\ max_size_ = 2
    /\ lastClear = 0
    /\ bounce_count_ = 1
    /\ cache_hits_ = 1
    /\ \E k \in Keys : is_cached(k) /\ lastUse[k] = 3
    /\ \E j \in Keys : ~is_cached(j) /\ lastUse[j] = 2 /\ newPuts = {1, 2, 4}

====
